---- MODULE Spec2Model ----
(***************************************************************************)
(* MessageStore (src/src/stores/MessageStore.js): a capacity-bounded,      *)
(* insertion-ordered cache of messages keyed by id, filled by direct set   *)
(* calls and by asynchronous fetches (single id, batch, pinned).           *)
(*                                                                         *)
(* A message object is a reference into the heap (its identity); the heap  *)
(* holds its id and content.  A fetch is a task that suspends once, at its *)
(* await of the transport, and runs to completion when the transport       *)
(* answers (single-threaded event loop); the callback of its caller runs   *)
(* in a later job, and set, delete, fetch calls and the continuations of   *)
(* other fetches may run in between.  pending is the bag of the promises   *)
(* of fetch: fetches suspended at their await, and settled promises whose  *)
(* callback has not run yet.  wire and returned describe the step just     *)
(* taken: what the transport answered to the continuation that ran in it   *)
(* and what that continuation (or a resolve call) handed back; they are    *)
(* empty after a step that hands nothing back.                             *)
(***************************************************************************)
EXTENDS Integers, Sequences, FiniteSets, Bags, TLC

\* ---- bounds of the model ----
NumIds == 3
MaxCap == 2
NumContents == 2
NumErrors == 2
MaxObjs == 3
MaxResp == 2
MaxTasks == 2
\* the batch that overflows the cache: ids, records of a response, messages held before
BatchIds == 4
BatchLen == 3
BatchPrior == 1

IDs == 1..NumIds
Contents == 1..NumContents
Errors == 1..NumErrors
\* client.options.messageCacheMaxSize left undefined
Unset == -2
\* values of client.options.messageCacheMaxSize: unset, negative (unbounded), 0 (disabled),
\* positive
MaxSizes == {Unset} \cup (-1)..MaxCap
\* undefined / absent
None == 0

VARIABLES maxSize, cache, heap, pending, wire, returned, setLog

vars == <<maxSize, cache, heap, pending, wire, returned, setLog>>

\* ---- the ordered map underneath the store (Collection, a JS Map) ----
Entry(k, v) == [key |-> k, value |-> v]

Has(c, k) == \E i \in 1..Len(c) : c[i].key = k

Get(c, k) == IF Has(c, k) THEN c[CHOOSE i \in 1..Len(c) : c[i].key = k].value ELSE None

Delete(c, k) == SelectSeq(c, LAMBDA e : e.key # k)

FirstKey(c) == IF Len(c) = 0 THEN None ELSE c[1].key

MapSet(c, k, v) ==
  IF Has(c, k)
    THEN [i \in 1..Len(c) |-> IF c[i].key = k THEN Entry(k, v) ELSE c[i]]
    ELSE Append(c, Entry(k, v))

KeysOf(c) == [i \in 1..Len(c) |-> c[i].key]

KeySet(c) == {c[i].key : i \in 1..Len(c)}

\* ---- MessageStore.set ----
\* this.size >= maxSize && maxSize > 0; a comparison with undefined is false
Full(m, size) == m # Unset /\ size >= m /\ m > 0

\* no capacity bound applies
Unbounded(m) == m = Unset \/ m < 0

\* variant: the capacity test is > instead of >=
StoreSetOffByOne(m, c, key, value) ==
  IF m = 0 THEN c
  ELSE LET c1 == IF m # Unset /\ Len(c) > m /\ m > 0 THEN Delete(c, FirstKey(c)) ELSE c
       IN  MapSet(c1, key, value)

\* variant: the newest entry is evicted instead of the oldest
StoreSetEvictNewest(m, c, key, value) ==
  IF m = 0 THEN c
  ELSE LET c1 == IF Full(m, Len(c)) THEN Delete(c, c[Len(c)].key) ELSE c
       IN  MapSet(c1, key, value)

\* variant: the test for a disabled cache is missing
StoreSetIgnoreDisabled(m, c, key, value) ==
  LET c1 == IF Full(m, Len(c)) THEN Delete(c, FirstKey(c)) ELSE c
  IN  MapSet(c1, key, value)

\* variant: a negative maximum evicts as well
StoreSetEvictsUnbounded(m, c, key, value) ==
  IF m = 0 THEN c
  ELSE LET c1 == IF m # Unset /\ Len(c) >= m /\ c # <<>> THEN Delete(c, FirstKey(c)) ELSE c
       IN  MapSet(c1, key, value)

\* variant: entries are evicted until the cache is below the maximum
RECURSIVE Trimmed(_, _)
Trimmed(m, c) == IF Full(m, Len(c)) THEN Trimmed(m, Delete(c, FirstKey(c))) ELSE c

StoreSetTrims(m, c, key, value) ==
  IF m = 0 THEN c
  ELSE MapSet(Trimmed(m, c), key, value)

StoreSet(m, c, key, value) ==
  IF m = 0 THEN c
  ELSE LET c1 == IF Full(m, Len(c)) THEN Delete(c, FirstKey(c)) ELSE c
       IN  MapSet(c1, key, value)

\* ---- Message construction and patching ----
Message(data) == [id |-> data.id, content |-> data.content]

Patch(h, ref, data) == [h EXCEPT ![ref].content = data.content]

\* ---- MessageStore.add -> DataStore.add ----
\* the store state threaded through a handler: the cache, the heap, and the value produced
St(c, h, e) == [cache |-> c, heap |-> h, entry |-> e]

Add(m, c, h, data) ==
  LET existing == Get(c, data.id) IN
  IF existing # None THEN St(c, h, existing)
  ELSE LET ref == Len(h) + 1
       IN  St(StoreSet(m, c, data.id, ref), Append(h, Message(data)), ref)

\* ---- task records ----
IdleTask ==
  [st |-> "idle", kind |-> "none", sel |-> None, overwrite |-> FALSE, existing |-> None,
   reads |-> 0, endpoint |-> "none", entity |-> None, coll |-> <<>>, error |-> None,
   peer |-> FALSE, given |-> None, id |-> None]

\* the transport's answers
Silent == [kind |-> "none", data |-> <<>>, error |-> None]

Answered(data) == [kind |-> "data", data |-> data, error |-> None]

Failed(err) == [kind |-> "error", data |-> <<>>, error |-> err]

Awaiting(kind, sel, ow, ex, endpoint) ==
  [IdleTask EXCEPT !.st = "awaiting", !.kind = kind, !.sel = sel, !.overwrite = ow,
                   !.existing = ex, !.reads = 1, !.endpoint = endpoint]

\* the step settles no promise and hands nothing back
NoSettlement == wire' = Silent /\ returned' = IdleTask

\* a settled promise waiting for the callback of its caller: the value or the error it holds
Promise(task) ==
  [IdleTask EXCEPT !.st = task.st, !.entity = task.entity, !.coll = task.coll,
                   !.error = task.error]

Init ==
  /\ maxSize \in MaxSizes
  /\ cache = <<>>
  /\ heap = <<>>
  /\ pending = EmptyBag
  /\ wire = Silent
  /\ returned = IdleTask
  /\ setLog = <<>>

\* ---- the accumulation loop of _fetchMany ----
RECURSIVE Accumulate(_, _, _, _, _)
Accumulate(m, c, h, data, messages) ==
  IF data = <<>> THEN St(c, h, messages)
  ELSE LET r == Add(m, c, h, Head(data))
       IN  Accumulate(m, r.cache, r.heap, Tail(data), MapSet(messages, Head(data).id, r.entry))

\* ---- what the transport can answer ----
Records == [id : IDs, content : Contents]

RECURSIVE SeqsUpTo(_, _)
SeqsUpTo(S, n) ==
  IF n = 0 THEN {<<>>}
  ELSE LET shorter == SeqsUpTo(S, n - 1)
       IN  shorter \cup {Append(q, x) : q \in {p \in shorter : Len(p) = n - 1}, x \in S}

Responses == SeqsUpTo(Records, MaxResp)

\* ---- set(key, value), called directly on the store with a message constructed for it ----
SetCall(key, content) ==
  /\ Len(heap) < MaxObjs
  /\ cache' = StoreSet(maxSize, cache, key, Len(heap) + 1)
  /\ heap' = Append(heap, Message([id |-> key, content |-> content]))
  /\ NoSettlement
  /\ UNCHANGED <<maxSize, pending>>

Set ==
  /\ \E key \in IDs, content \in Contents : SetCall(key, content)
  /\ UNCHANGED setLog

\* ---- delete(key), inherited from Map, called directly on the store ----
\* for a key that is not cached it returns false and changes nothing
DeleteCall(key) ==
  /\ Has(cache, key)
  /\ cache' = Delete(cache, key)
  /\ NoSettlement
  /\ UNCHANGED <<maxSize, heap, pending>>

Remove ==
  /\ \E key \in IDs : DeleteCall(key)
  /\ UNCHANGED setLog

\* ---- clear(), inherited from Map, called directly on the store ----
\* on an empty cache it changes nothing
ClearCall ==
  /\ cache # <<>>
  /\ cache' = <<>>
  /\ NoSettlement
  /\ UNCHANGED <<maxSize, heap, pending>>

Clear ==
  /\ ClearCall
  /\ UNCHANGED setLog

\* ---- fetch(message, overwrite): the part before the await ----
Start(task) ==
  /\ BagCardinality(pending) < MaxTasks
  /\ pending' = pending (+) SetToBag({task})
  /\ NoSettlement
  /\ UNCHANGED <<maxSize, cache, heap, setLog>>

\* variant: a cached message is returned without asking the transport
FetchIdShortCircuit(messageID, overwrite) ==
  IF Has(cache, messageID)
    THEN /\ wire' = Answered(<<>>)
         /\ returned' = [Awaiting("id", messageID, overwrite, Get(cache, messageID), "message")
                           EXCEPT !.st = "resolved", !.reads = 0,
                                  !.entity = Get(cache, messageID)]
         /\ UNCHANGED <<maxSize, cache, heap, pending, setLog>>
    ELSE Start(Awaiting("id", messageID, overwrite, None, "message"))

FetchId(messageID, overwrite) ==
  Start(Awaiting("id", messageID, overwrite, Get(cache, messageID), "message"))

FetchMany(overwrite) ==
  Start(Awaiting("many", None, overwrite, None, "messages"))

FetchPinned ==
  Start(Awaiting("pinned", None, FALSE, None, "pins"))

\* ---- the part after the await ----
\* bookkeeping: when a single-id fetch with overwrite resolves, the fetches with overwrite
\* of the same id that are in flight with it are marked as having had a peer; the settled
\* promise stays until the callback of its caller runs
HasPeer(task, other) ==
  /\ task.kind = "id" /\ task.overwrite
  /\ other.kind = "id" /\ other.overwrite /\ other.sel = task.sel

MarkPeer(task, other) == IF HasPeer(task, other) THEN [other EXCEPT !.peer = TRUE] ELSE other

Others(task) ==
  LET rest == pending (-) SetToBag({task})
      Marked(other) == MarkPeer(task, other)
  IN  BagOfAll(Marked, rest)

Settle(task, r, data, entity, coll) ==
  /\ task.st = "awaiting"
  /\ cache' = r.cache
  /\ heap' = r.heap
  /\ wire' = Answered(data)
  /\ returned' = [task EXCEPT !.st = "resolved", !.entity = entity, !.coll = coll]
  /\ pending' = Others(task) (+) SetToBag({Promise(returned')})
  /\ UNCHANGED <<maxSize, setLog>>

\* variant: the cached message is not patched
FetchIdResolveNoPatch(task, content) ==
  /\ task.kind = "id"
  /\ LET data == [id |-> task.sel, content |-> content]
         r == Add(maxSize, cache, heap, data)
     IN  Settle(task, r, <<data>>, r.entry, <<>>)

\* variant: the message returned by add is set into the cache once more
FetchIdResolveResets(task, content) ==
  /\ task.kind = "id"
  /\ LET data == [id |-> task.sel, content |-> content]
         existing == task.existing
         h1 == IF existing # None /\ task.overwrite THEN Patch(heap, existing, data) ELSE heap
         r == Add(maxSize, cache, h1, data)
         again == St(StoreSet(maxSize, r.cache, data.id, r.entry), r.heap, r.entry)
     IN  Settle(task, again, <<data>>, r.entry, <<>>)

FetchIdResolve(task, content) ==
  /\ task.kind = "id"
  /\ LET data == [id |-> task.sel, content |-> content]
         existing == task.existing
         h1 == IF existing # None /\ task.overwrite THEN Patch(heap, existing, data) ELSE heap
         r == Add(maxSize, cache, h1, data)
     IN  Settle(task, r, <<data>>, r.entry, <<>>)

Reverse(q) == [i \in 1..Len(q) |-> q[Len(q) + 1 - i]]

\* variant: the response is walked from its end
FetchManyResolveReversed(task, data) ==
  /\ task.kind = "many"
  /\ LET r == Accumulate(maxSize, cache, heap, Reverse(data), <<>>)
     IN  Settle(task, r, data, None, r.entry)

FetchManyResolve(task, data) ==
  /\ task.kind = "many"
  /\ LET r == Accumulate(maxSize, cache, heap, data, <<>>)
     IN  Settle(task, r, data, None, r.entry)

\* the loop of fetchPinned
RECURSIVE PinnedAccumulate(_, _, _, _, _)
PinnedAccumulate(m, c, h, data, messages) ==
  IF data = <<>> THEN St(c, h, messages)
  ELSE LET message == Head(data)
           r == Add(m, c, h, message)
       IN  PinnedAccumulate(m, r.cache, r.heap, Tail(data), MapSet(messages, message.id, r.entry))

\* variant: the pinned messages are walked last to first
FetchPinnedResolveReversed(task, data) ==
  /\ task.kind = "pinned"
  /\ LET r == PinnedAccumulate(maxSize, cache, heap, Reverse(data), <<>>)
     IN  Settle(task, r, data, None, r.entry)

FetchPinnedResolve(task, data) ==
  /\ task.kind = "pinned"
  /\ LET r == PinnedAccumulate(maxSize, cache, heap, data, <<>>)
     IN  Settle(task, r, data, None, r.entry)

\* the transport call fails: the awaited promise rejects and nothing after it runs
\* variant: the error is replaced by a generic one
RejectedTranslated(task, err) == [task EXCEPT !.st = "rejected", !.error = 1]

Rejected(task, err) == [task EXCEPT !.st = "rejected", !.error = err]

\* variant: a failed fetch of one message drops the message from the cache
TransportFailsInvalidates(task, err) ==
  /\ task.st = "awaiting"
  /\ wire' = Failed(err)
  /\ returned' = Rejected(task, err)
  /\ pending' = (pending (-) SetToBag({task})) (+) SetToBag({Promise(returned')})
  /\ cache' = IF task.kind = "id" THEN Delete(cache, task.sel) ELSE cache
  /\ UNCHANGED <<maxSize, heap, setLog>>

TransportFails(task, err) ==
  /\ task.st = "awaiting"
  /\ wire' = Failed(err)
  /\ returned' = Rejected(task, err)
  /\ pending' = (pending (-) SetToBag({task})) (+) SetToBag({Promise(returned')})
  /\ UNCHANGED <<maxSize, cache, heap, setLog>>

Issue ==
  \/ \E messageID \in IDs, overwrite \in BOOLEAN : FetchId(messageID, overwrite)
  \/ \E overwrite \in BOOLEAN : FetchMany(overwrite)
  \/ FetchPinned

\* the messages constructed by the continuations are bounded
Complete ==
  /\ \E task \in BagToSet(pending) :
       \/ \E content \in Contents : FetchIdResolve(task, content)
       \/ \E data \in Responses : FetchManyResolve(task, data)
       \/ \E data \in Responses : FetchPinnedResolve(task, data)
       \/ \E err \in Errors : TransportFails(task, err)
  /\ Len(heap') <= MaxObjs

\* the callback of the caller runs with the value or the error of a settled promise
Callback(task) ==
  /\ task.st \in {"resolved", "rejected"}
  /\ pending' = pending (-) SetToBag({task})
  /\ NoSettlement
  /\ UNCHANGED <<maxSize, cache, heap, setLog>>

Deliver == \E task \in BagToSet(pending) : Callback(task)

Next == Set \/ Remove \/ Clear \/ Issue \/ Complete \/ Deliver

Spec == Init /\ [][Next]_vars

\* ---- set calls only, with the calls made so far recorded ----
LoggedSet ==
  \E key \in IDs, content \in Contents :
    /\ SetCall(key, content)
    /\ setLog' = Append(setLog, Entry(key, Len(heap) + 1))

\* a delete is recorded with no value
LoggedDelete ==
  \E key \in IDs :
    /\ DeleteCall(key)
    /\ setLog' = Append(setLog, Entry(key, None))

\* a clear is recorded with no key and no value
LoggedClear ==
  /\ ClearCall
  /\ setLog' = Append(setLog, Entry(None, None))

NextSet == LoggedSet \/ LoggedDelete \/ LoggedClear

SpecSet == Init /\ [][NextSet]_vars

\* ---- fetches run one at a time: nothing else is called until the caller of a fetch has
\* its result ----
Quiet == pending = EmptyBag

NextSeq ==
  \/ (Quiet /\ Set) \/ (Quiet /\ Remove) \/ (Quiet /\ Clear) \/ (Quiet /\ Issue)
  \/ Complete \/ Deliver

SpecSeq == Init /\ [][NextSeq]_vars

\* ---- single-id fetches in flight together, with set, delete and clear calls in between ----
IssueId == \E messageID \in IDs, overwrite \in BOOLEAN : FetchId(messageID, overwrite)

CompleteId ==
  /\ \E task \in BagToSet(pending) :
       \/ \E content \in Contents : FetchIdResolve(task, content)
       \/ \E err \in Errors : TransportFails(task, err)
  /\ Len(heap') <= MaxObjs

NextConc == Set \/ Remove \/ Clear \/ IssueId \/ CompleteId \/ Deliver

SpecConc == Init /\ [][NextConc]_vars

\* ---- one batch fetch of up to BatchLen records into a store that holds up to BatchPrior
\* messages ----
BatchIDs == 1..BatchIds

BatchResponses == SeqsUpTo([id : BatchIDs, content : Contents], BatchLen)

SetPrior ==
  /\ Len(heap) < BatchPrior
  /\ \E key \in BatchIDs, content \in Contents : SetCall(key, content)
  /\ UNCHANGED setLog

IssueMany ==
  /\ Len(heap) <= BatchPrior
  /\ \E overwrite \in BOOLEAN : FetchMany(overwrite)

CompleteMany ==
  \E task \in BagToSet(pending) : \E data \in BatchResponses : FetchManyResolve(task, data)

NextBatch == (Quiet /\ SetPrior) \/ (Quiet /\ IssueMany) \/ CompleteMany \/ Deliver

SpecBatch == Init /\ [][NextBatch]_vars

\* ---- the maximum is lowered while the store is in use ----
\* client.options.messageCacheMaxSize is read anew by every set call
Lower(n) ==
  /\ Unbounded(maxSize) \/ maxSize > n
  /\ maxSize' = n
  /\ NoSettlement
  /\ UNCHANGED <<cache, heap, pending, setLog>>

\* set(message.id, message) with a message that exists already
SetHeld(value) ==
  /\ cache' = StoreSet(maxSize, cache, heap[value].id, value)
  /\ NoSettlement
  /\ UNCHANGED <<maxSize, heap, pending, setLog>>

LowerMax == \E n \in 1..MaxCap : Lower(n)

SetAgain == \E value \in 1..Len(heap) : SetHeld(value)

\* a set call for an id that is not cached
SetNewId ==
  \E key \in IDs :
    /\ ~Has(cache, key)
    /\ \/ \E value \in 1..Len(heap) : heap[value].id = key /\ SetHeld(value)
       \/ (\E content \in Contents : SetCall(key, content)) /\ UNCHANGED setLog

NextLower == Set \/ SetAgain \/ Remove \/ Clear \/ LowerMax

\* set calls for new ids keep coming as long as one is possible
SpecLower == Init /\ [][NextLower]_vars /\ WF_vars(SetNewId)

\* ---- resolve(message) and resolveID(message): message is a Message or an id ----
ResolveResult(c, sel, given) == IF given # None THEN given ELSE Get(c, sel)

ResolveIDResult(c, h, sel, given) ==
  IF given # None THEN h[given].id
  ELSE IF Has(c, sel) THEN sel ELSE None

Handed(kind, sel, given, entity, id) ==
  [IdleTask EXCEPT !.st = "resolved", !.kind = kind, !.sel = sel, !.given = given,
                   !.entity = entity, !.id = id]

\* variant: an id that is not cached is fetched
ResolveFetches(sel, given) ==
  IF given = None /\ ~Has(cache, sel)
    THEN FetchId(sel, FALSE)
    ELSE /\ returned' = Handed("resolve", sel, given, ResolveResult(cache, sel, given), None)
         /\ UNCHANGED <<maxSize, cache, heap, pending, wire, setLog>>

Resolve(sel, given) ==
  /\ returned' = Handed("resolve", sel, given, ResolveResult(cache, sel, given), None)
  /\ UNCHANGED <<maxSize, cache, heap, pending, wire, setLog>>

ResolveID(sel, given) ==
  /\ returned' = Handed("resolveID", sel, given, None, ResolveIDResult(cache, heap, sel, given))
  /\ UNCHANGED <<maxSize, cache, heap, pending, wire, setLog>>

ResolveCall ==
  \/ \E sel \in IDs : Resolve(sel, None)
  \/ \E given \in 1..Len(heap) : Resolve(None, given)

ResolveIDCall ==
  \/ \E sel \in IDs : ResolveID(sel, None)
  \/ \E given \in 1..Len(heap) : ResolveID(None, given)

NextResolve == Set \/ Remove \/ Clear \/ ResolveCall \/ ResolveIDCall

SpecResolve == Init /\ [][NextResolve]_vars

TypeOK ==
  /\ maxSize \in MaxSizes
  /\ Len(heap) <= MaxObjs
  /\ \A i \in 1..Len(cache) : cache[i].key \in IDs /\ cache[i].value \in 1..Len(heap)
  /\ \A i, j \in 1..Len(cache) : cache[i].key = cache[j].key => i = j

\* ---- helpers of the properties ----
Distinct(q) == \A i, j \in 1..Len(q) : q[i] = q[j] => i = j

Min(a, b) == IF a <= b THEN a ELSE b

LastN(q, n) == SubSeq(q, Len(q) - n + 1, Len(q))

Last(q) == q[Len(q)]

\* an entry of the log that records a set call (a delete or a clear is recorded with no
\* value)
IsSet(e) == e.value # None

OnlySets == \A i \in 1..Len(setLog) : IsSet(setLog[i])

IdsOf(data) == [i \in 1..Len(data) |-> data[i].id]

\* ---- C1 ----
\* C1: capacity invariant. With a positive maximum the cache never holds more
\* entries than the maximum after any sequence of set calls; with maximum 0 it
\* holds none.
CapacityInvariant ==
  /\ maxSize > 0 => Len(cache) <= maxSize
  /\ maxSize = 0 => Len(cache) = 0

\* more set calls than the maximum, some for an id set before, and the cache is full
CapacityWitness ==
  /\ maxSize > 0
  /\ OnlySets
  /\ Len(setLog) > maxSize
  /\ ~Distinct(KeysOf(setLog))
  /\ Len(cache) = maxSize

\* ---- C2 ----
\* C2: update in place. A set call for the id of the set call just before it
\* leaves the size of the cache unchanged, evicts no other entry, and get(id)
\* then returns the new value (cache enabled).
UpdateInPlace ==
  [][(/\ setLog' # setLog
      /\ Len(setLog) > 0
      /\ IsSet(Last(setLog')) /\ IsSet(Last(setLog))
      /\ Last(setLog').key = Last(setLog).key
      /\ maxSize # 0)
     => (/\ Len(cache') = Len(cache)
         /\ \A i \in 1..Len(cache) :
              cache[i].key # Last(setLog').key => Get(cache', cache[i].key) = cache[i].value
         /\ Get(cache', Last(setLog').key) = Last(setLog').value)]_vars

\* ---- C3 ----
\* C3: eviction order. From an empty cache with maximum N > 0, after set calls
\* with pairwise distinct ids k1..km (and no delete) the cache holds exactly
\* the last min(N, m) of them, in insertion order.
EvictionOrder ==
  (maxSize > 0 /\ OnlySets /\ Distinct(KeysOf(setLog)))
    => cache = LastN(setLog, Min(maxSize, Len(setLog)))

\* N + 1 distinct ids were set: the first one is gone
EvictionWitness ==
  /\ maxSize > 0
  /\ OnlySets
  /\ Distinct(KeysOf(setLog))
  /\ Len(setLog) = maxSize + 1
  /\ ~Has(cache, setLog[1].key)

\* the continuation of a fetch of the given kind runs in this step and resolves its promise
Resolves(kind) == pending' # pending /\ returned'.st = "resolved" /\ returned'.kind = kind

Resolved(kind) == returned.st = "resolved" /\ returned.kind = kind

\* ---- C4 ----
\* C4: fetch-single merges, fetches run one at a time, cache not disabled. The
\* fetch returns the message cached under the id afterwards; an id that was not
\* cached is inserted with the content of the response; an id that was cached
\* keeps its message object, and with overwrite that object has the content of
\* the response.
FetchSingleMerges ==
  [][(Resolves("id") /\ maxSize # 0)
     => LET id == returned'.sel
            existing == returned'.existing
            fresh == wire'.data[1].content
        IN  /\ existing = Get(cache, id)
            /\ returned'.entity # None
            /\ Get(cache', id) = returned'.entity
            /\ existing = None => heap'[returned'.entity].content = fresh
            /\ existing # None => returned'.entity = existing
            /\ (existing # None /\ returned'.overwrite) => heap'[existing].content = fresh]_vars

\* a cached id was fetched again with overwrite while the cache was full
FetchSingleWitness ==
  /\ Resolved("id")
  /\ returned.existing # None
  /\ returned.overwrite
  /\ maxSize > 0
  /\ Len(cache) = maxSize
  /\ returned.entity = returned.existing
  /\ heap[returned.existing].content = wire.data[1].content

\* ---- C5 ----
\* C5: batch order preservation. When the response of a batch fetch lists
\* pairwise distinct ids, the returned collection holds exactly those ids in
\* the order of the response, whatever the maximum and the cache held.
BatchOrder ==
  (Resolved("many") /\ Distinct(IdsOf(wire.data)))
    => KeysOf(returned.coll) = IdsOf(wire.data)

\* a response not in id order, longer than the cache can hold
BatchOrderWitness ==
  /\ Resolved("many")
  /\ Len(wire.data) = 2
  /\ wire.data[1].id > wire.data[2].id
  /\ maxSize = 1
  /\ KeysOf(returned.coll) = IdsOf(wire.data)

\* ---- C6 ----
\* C6 as stated: after a batch fetch with the cache enabled every record of the
\* response is in the cache, as the message the returned collection holds for
\* its id, for any response length and any enabled maximum.
BatchAllCached ==
  (Resolved("many") /\ maxSize # 0)
    => \A i \in 1..Len(wire.data) :
         /\ Has(cache, wire.data[i].id)
         /\ Get(cache, wire.data[i].id) = Get(returned.coll, wire.data[i].id)

\* C6 amended: the same, provided the maximum is negative or unset (unbounded), or the
\* response holds at most maximum records and none of them was cached when the
\* response arrived.
BatchCachedWithinCapacity ==
  [][(/\ Resolves("many")
      /\ maxSize # 0
      /\ \/ Unbounded(maxSize)
         \/ /\ Len(wire'.data) <= maxSize
            /\ \A i \in 1..Len(wire'.data) : ~Has(cache, wire'.data[i].id))
     => \A i \in 1..Len(wire'.data) :
          /\ Has(cache', wire'.data[i].id)
          /\ Get(cache', wire'.data[i].id) = Get(returned'.coll, wire'.data[i].id)]_vars

\* two new records fill a cache of two, pushing out what was there
BatchCachedWitness ==
  /\ Resolved("many")
  /\ maxSize = 2
  /\ Len(wire.data) = 2
  /\ Distinct(IdsOf(wire.data))
  /\ Len(heap) = 3
  /\ returned.coll = <<Entry(wire.data[1].id, 2), Entry(wire.data[2].id, 3)>>
  /\ cache = returned.coll

\* ---- C7 ----
\* C7: disabled cache. With maximum 0 the cache stays empty, a single-id fetch
\* returns a message with the content of the response, and a batch or pinned
\* fetch returns a collection of the ids of the response, in response order
\* and with the contents of the response when the ids are distinct.
DisabledCache ==
  maxSize = 0 =>
    /\ cache = <<>>
    /\ Resolved("id") =>
         /\ returned.entity # None
         /\ heap[returned.entity].content = wire.data[1].content
    /\ (Resolved("many") \/ Resolved("pinned")) =>
         /\ KeySet(returned.coll) = {wire.data[i].id : i \in 1..Len(wire.data)}
         /\ Distinct(IdsOf(wire.data)) =>
              /\ KeysOf(returned.coll) = IdsOf(wire.data)
              /\ \A i \in 1..Len(wire.data) :
                   heap[returned.coll[i].value].content = wire.data[i].content

\* a pinned fetch returned two messages and nothing was cached
DisabledCacheWitness ==
  /\ maxSize = 0
  /\ Resolved("pinned")
  /\ Len(wire.data) = 2
  /\ Distinct(IdsOf(wire.data))
  /\ Len(returned.coll) = 2
  /\ cache = <<>>

\* ---- C8 ----
\* C8: overwrite applies to batch fetches. When a batch fetch with overwrite
\* settles, every message of the response that was cached has the content of
\* its record in the response.
OverwriteBatch ==
  [][(Resolves("many") /\ returned'.overwrite /\ Distinct(IdsOf(wire'.data)))
     => \A i \in 1..Len(wire'.data) :
          Has(cache, wire'.data[i].id)
            => heap'[Get(cache, wire'.data[i].id)].content = wire'.data[i].content]_vars

\* ---- C9 ----
\* C9: transport failure propagates. When the transport call of a fetch fails,
\* the fetch rejects with that error, hands over no message and no collection,
\* and has issued a single request.
TransportFailurePropagates ==
  wire.kind = "error" =>
    /\ returned.st = "rejected"
    /\ returned.error = wire.error
    /\ returned.entity = None
    /\ returned.coll = <<>>
    /\ returned.reads = 1

\* a pinned fetch failed with the last error
TransportFailureWitness ==
  /\ wire.kind = "error"
  /\ wire.error = NumErrors
  /\ returned.st = "rejected"
  /\ returned.kind = "pinned"

\* ---- C10 ----
\* C10: every single-id fetch, in flight or settled, has issued exactly one
\* read of the message endpoint for its id, cached or not, overwrite or not.
OneReadPerFetchId ==
  /\ \A task \in BagToSet(pending) :
       task.kind = "id" => task.reads = 1 /\ task.endpoint = "message" /\ task.sel \in IDs
  /\ returned.kind = "id" =>
       returned.reads = 1 /\ returned.endpoint = "message" /\ returned.sel \in IDs

\* a fetch of a cached id resolved after its one read
OneReadWitness ==
  /\ Resolved("id")
  /\ returned.existing # None
  /\ ~returned.overwrite
  /\ returned.reads = 1
  /\ wire.kind = "data"
  /\ wire.data[1].id = returned.sel

\* ---- C11 ----
\* C11: resolve and resolveID are pure. A call with a message (cached or not)
\* or an id (cached or not) leaves the cache and the messages as they are and
\* asks nothing of the transport; for an id that is not cached the result is
\* absent.  (Only set, delete, clear, resolve and resolveID are called, so
\* any request would come from resolve or resolveID.)
Resolving == returned'.kind \in {"resolve", "resolveID"}

ResolvePure ==
  [][/\ pending' = pending
     /\ wire' = wire
     /\ Resolving =>
          /\ cache' = cache
          /\ heap' = heap
          /\ returned'.reads = 0
          /\ (returned'.given = None /\ ~Has(cache, returned'.sel))
               => (returned'.entity = None /\ returned'.id = None)]_vars

\* resolveID was given a message that is no longer cached, in a full cache
ResolveWitness ==
  /\ returned.st = "resolved"
  /\ returned.kind = "resolveID"
  /\ returned.given # None
  /\ \A i \in 1..Len(cache) : cache[i].value # returned.given
  /\ returned.id = heap[returned.given].id
  /\ maxSize > 0
  /\ Len(cache) = maxSize

\* ---- C12 ----
\* C12: position preserved on update. A set call for an id that is cached keeps
\* the id in the cache at its position: the keys that survive the call are in
\* the same relative order before and after it, also when the cache is full and
\* when the id is the oldest key.
Survivors(before, after) == SelectSeq(KeysOf(before), LAMBDA k : Has(after, k))

PositionPreserved ==
  [][(/\ setLog' # setLog
      /\ IsSet(Last(setLog'))
      /\ Has(cache, Last(setLog').key)
      /\ maxSize # 0)
     => /\ Has(cache', Last(setLog').key)
        /\ Survivors(cache, cache') = Survivors(cache', cache)]_vars

\* ---- C13 ----
\* C13: identity preserved under interleaving. A single-id fetch with overwrite
\* of an id that was cached when the fetch was called returns the message that
\* was cached then, with the content of its response, and that message is the
\* one cached under the id (cache enabled), whatever ran while the request was
\* in flight.
IdentityPreserved ==
  [][(Resolves("id") /\ returned'.overwrite /\ returned'.existing # None)
     => /\ returned'.entity = returned'.existing
        /\ heap'[returned'.entity].content = wire'.data[1].content
        /\ maxSize # 0 => Get(cache', returned'.sel) = returned'.existing]_vars

\* ---- C14 ----
\* C14: last writer wins. When a single-id fetch with overwrite resolves after
\* another fetch with overwrite of the same id that was in flight together
\* with it, the message cached under the id has the content of the response
\* of the later one (cache enabled).
LastWriterWins ==
  [][(Resolves("id") /\ returned'.overwrite /\ returned'.peer /\ maxSize # 0)
     => /\ Has(cache', returned'.sel)
        /\ heap'[Get(cache', returned'.sel)].content = wire'.data[1].content]_vars

\* ---- C20 ----
\* C20: a single-id fetch without overwrite that resolves while its id is
\* cached leaves the keys of the cache, their order and their number (and the
\* messages cached under them) as they were, also in a full cache.
RefetchKeepsCache ==
  [][(Resolves("id") /\ ~returned'.overwrite /\ Has(cache, returned'.sel))
     => /\ KeysOf(cache') = KeysOf(cache)
        /\ Len(cache') = Len(cache)
        /\ cache' = cache]_vars

\* the id was not cached at the call, was set while the request was in flight,
\* and the fetch found it (with a content other than that of the response) in a
\* full cache of two
RefetchWitness ==
  /\ Resolved("id")
  /\ ~returned.overwrite
  /\ returned.existing = None
  /\ returned.entity # None
  /\ heap[returned.entity].content # wire.data[1].content
  /\ Get(cache, returned.sel) = returned.entity
  /\ maxSize = 2
  /\ Len(cache) = 2
  /\ cache[2].key = returned.sel

\* ---- C15 ----
OverBound == maxSize > 0 /\ Len(cache) > maxSize

\* C15 as stated: once the maximum has been lowered below the size of the
\* cache, a run in which set calls with new ids never cease brings the size
\* down to the maximum.
RecoversAfterLowering ==
  []<><<SetNewId>>_vars => (OverBound ~> ~OverBound)

\* C15 amended: a set call with a new id on a cache that is over the maximum
\* evicts one entry and inserts one: the size stays what it was, over the
\* maximum, however many such calls follow.
StaysOverBound ==
  [][(/\ OverBound
      /\ cache' # cache /\ cache' # <<>>
      /\ ~Has(cache, Last(cache').key))
     => (Len(cache') = Len(cache) /\ OverBound')]_vars

\* maximum lowered to 1 with two entries cached; the first message was set
\* again after the third one
StaysOverBoundWitness ==
  /\ maxSize = 1
  /\ Len(cache) = 2
  /\ Len(heap) = 3
  /\ cache[1].value = 3
  /\ cache[2].value = 1

\* ---- C16 ----
\* the position of the last delete of a key or clear, 0 when there was none
LastDelete(key) ==
  LET deletes == {i \in 1..Len(setLog) : setLog[i].key \in {key, None} /\ ~IsSet(setLog[i])}
  IN  IF deletes = {} THEN 0 ELSE CHOOSE i \in deletes : \A j \in deletes : j <= i

\* the set calls for a key since its last delete
SetsOf(key) ==
  {i \in 1..Len(setLog) : setLog[i].key = key /\ IsSet(setLog[i]) /\ i > LastDelete(key)}

FirstSet(key) == CHOOSE i \in SetsOf(key) : \A j \in SetsOf(key) : i <= j

LastSet(key) == CHOOSE i \in SetsOf(key) : \A j \in SetsOf(key) : j <= i

\* C16: unbounded mode. With a negative or unset maximum no set call evicts:
\* after any sequence of set, delete and clear calls the cache holds every id
\* that was set and not deleted or cleared since, once, in the order of
\* insertion and with the value set last.
UnboundedKeepsAll ==
  Unbounded(maxSize) =>
    /\ KeySet(cache) = {key \in IDs : SetsOf(key) # {}}
    /\ Distinct(KeysOf(cache))
    /\ \A i \in 1..Len(cache) : cache[i].value = setLog[LastSet(cache[i].key)].value
    /\ \A i, j \in 1..Len(cache) : i < j => FirstSet(cache[i].key) < FirstSet(cache[j].key)

\* with a negative maximum: two ids set, the first one deleted and set again
UnboundedWitness ==
  /\ maxSize = -1
  /\ Len(setLog) = 4
  /\ setLog[3] = Entry(setLog[1].key, None)
  /\ setLog[4].key = setLog[1].key
  /\ cache = <<Entry(setLog[2].key, 2), Entry(setLog[1].key, 3)>>

\* ---- C17 ----
\* C17: fetchPinned accumulates like a batch fetch. From the same cache, the
\* same maximum and the same response, the resolution of fetchPinned leaves
\* the cache and the messages as the loop of the batch path leaves them and
\* returns the collection that loop returns.
PinnedLikeBatch ==
  [][Resolves("pinned")
     => LET r == Accumulate(maxSize, cache, heap, wire'.data, <<>>)
        IN  /\ cache' = r.cache
            /\ heap' = r.heap
            /\ returned'.coll = r.entry]_vars

\* two pinned messages, the first cached before, with room for one
PinnedLikeBatchWitness ==
  /\ Resolved("pinned")
  /\ maxSize = 1
  /\ Len(wire.data) = 2
  /\ Len(heap) = 2
  /\ returned.coll = <<Entry(wire.data[1].id, 1), Entry(wire.data[2].id, 2)>>
  /\ cache = <<Entry(wire.data[2].id, 2)>>

\* ---- C18 ----
\* C18: a fetch whose transport call fails changes nothing in the cache: the
\* step that issues a fetch and the step that rejects it leave the entries,
\* their order and every message as they were, on all three paths.
FailedFetchKeepsCache ==
  [][(\/ returned'.st = "rejected" /\ pending' # pending
      \/ BagCardinality(pending') > BagCardinality(pending))
     => (cache' = cache /\ heap' = heap)]_vars

\* a fetch with overwrite of a cached id failed; the message it read is still
\* cached as it was
FailedFetchWitness ==
  /\ returned.st = "rejected"
  /\ returned.kind = "id"
  /\ returned.overwrite
  /\ returned.existing # None
  /\ Has(cache, returned.sel)
  /\ Get(cache, returned.sel) = returned.existing

\* ---- C19 ----
\* C19: a batch fetch answers more records than the maximum N > 0, with
\* pairwise distinct ids none of which was cached before. The returned
\* collection holds every record of the response, in response order; the
\* cache then holds exactly the last N of them, in response order, and none
\* of the entries it held before.
BatchOverflow ==
  [][(/\ Resolves("many")
      /\ maxSize > 0
      /\ Len(wire'.data) > maxSize
      /\ Distinct(IdsOf(wire'.data))
      /\ \A i \in 1..Len(wire'.data) : ~Has(cache, wire'.data[i].id))
     => /\ KeysOf(returned'.coll) = IdsOf(wire'.data)
        /\ \A i \in 1..Len(wire'.data) :
             heap'[returned'.coll[i].value] = Message(wire'.data[i])
        /\ cache' = LastN(returned'.coll, maxSize)
        /\ \A i \in 1..Len(cache) : ~Has(cache', cache[i].key)]_vars

\* one message cached and room for two; three records arrive for other ids,
\* the last two of them stay
BatchOverflowWitness ==
  /\ Resolved("many")
  /\ maxSize = 2
  /\ Len(wire.data) = 3
  /\ Len(heap) = 4
  /\ heap[1].id \notin {wire.data[i].id : i \in 1..3}
  /\ returned.coll = <<Entry(wire.data[1].id, 2), Entry(wire.data[2].id, 3),
                       Entry(wire.data[3].id, 4)>>
  /\ cache = <<Entry(wire.data[2].id, 3), Entry(wire.data[3].id, 4)>>
====
